---- MODULE Spec2Model ----
(***************************************************************************)
(* Model of work-schedule-bot (src/lambda/main.py): the schedule table     *)
(* parser, the shift fingerprint, the calendar reconciler _upsert_event    *)
(* and the batch driver _process_recent_emails / handler.                  *)
(*                                                                         *)
(* Time is discrete: a day has DayLen clock slots, a wall-clock time of    *)
(* day is a slot 0..DayLen-1 (slot 0 is midnight), a calendar date is a    *)
(* record [y, m, d], and an instant sent to the calendar is the integer    *)
(* DayNum(date) * DayLen + slot.  The calendar (events list / insert /     *)
(* update) and the mailbox (messages list / get) are the two remote        *)
(* services; every call to them either answers or raises, and a call that  *)
(* raises has changed nothing.  The calendar is modelled by what the code  *)
(* asks of it: list answers the events that end after timeMin and start    *)
(* before timeMax, insert appends, update replaces the event of that id.   *)
(***************************************************************************)
EXTENDS Integers, Sequences, FiniteSets, TLC

\* ------------------------------------------------------------------ bounds
\* clock slots per day
DayLen == 4
\* messages in the mailbox that match the search
MaxMsgs == 2
\* invocations of handler
MaxRuns == 2
\* rows of a table given to the parser on its own
MaxRows == 3

\* ------------------------------------------------------- program constants
\* SHIFT_TITLE, "Work", as a sequence of characters
SHIFT_TITLE == <<"W", "o", "r", "k">>
\* NUM_PUBLISH_EMAILS
NUM_PUBLISH_EMAILS == 5
\* the year datetime.now(ZoneInfo(tz)).year answers when the header is absent
CurrentYear == 2025

\* no private hash on an event, and no hash filter on a list call
NoHash == <<>>
\* what handler has returned: nothing so far
NoResult == <<>>

\* the times of day dateutil parses; a token outside (hour 25) makes it raise
Times == 0 .. (DayLen - 1)

\* ------------------------------------------------------------ text helpers
RECURSIVE LStrip(_)
LStrip(s) == IF s # <<>> /\ Head(s) = " " THEN LStrip(Tail(s)) ELSE s

RECURSIVE RStrip(_)
RStrip(s) ==
    IF s # <<>> /\ s[Len(s)] = " " THEN RStrip(SubSeq(s, 1, Len(s) - 1)) ELSE s

\* str.strip()
Strip(s) == RStrip(LStrip(s))

LowerChar(c) ==
    CASE c = "W" -> "w"
      [] c = "O" -> "o"
      [] c = "R" -> "r"
      [] c = "K" -> "k"
      [] c = "L" -> "l"
      [] c = "S" -> "s"
      [] OTHER -> c

\* str.lower()
Lower(s) == [i \in 1 .. Len(s) |-> LowerChar(s[i])]

\* str.startswith(prefix)
StartsWith(s, prefix) ==
    /\ Len(s) >= Len(prefix)
    /\ SubSeq(s, 1, Len(prefix)) = prefix

\* th.get_text(strip=True).lower() of a header cell
LowerLabel(l) ==
    CASE l = "Date" -> "date"
      [] l = "TIME" -> "time"
      [] l = "Department" -> "department"
      [] l = "Job" -> "job"
      [] OTHER -> l

\* ------------------------------------------------------------ date helpers
\* ordinal of a calendar date; monotone in (y, m, d), 31 ordinals a month
DayNum(date) == (date.y * 12 + (date.m - 1)) * 31 + (date.d - 1)

\* datetime.isoformat() as read back by the calendar: the absolute instant
IsoInstant(dt) == DayNum(dt.date) * DayLen + dt.tod

\* dateutil accepts a month 1..12 and a day 1..31 (shorter months aside)
ValidDate(mm, dd) == mm \in 1 .. 12 /\ dd \in 1 .. 31

\* ------------------------------------------------------------ Table Parser
\* as TargetTable, but the first table is taken whatever its headers
TargetTable_first_table(html) == IF html.tables = <<>> THEN 0 ELSE 1

\* the table the parser picks: the first one whose <th> labels, lower-cased,
\* include date, time, department and job; 0 when there is none
TargetTable(html) ==
    LET ok(i) == {"date", "time", "department", "job"} \subseteq
                    {LowerLabel(html.tables[i].ths[j]) :
                        j \in 1 .. Len(html.tables[i].ths)}
        hits == {i \in 1 .. Len(html.tables) : ok(i)}
    IN  IF hits = {} THEN 0 ELSE CHOOSE i \in hits : \A j \in hits : i <= j

\* year of the "published from mm/dd/yyyy to ..." header, else the current year
\* (html.year = 0: no such header)
RefYear(html) == IF html.year # 0 THEN html.year ELSE CurrentYear

\* one <tr>: the sequence of shifts (none or one) the loop body appends
ParseRow(tds, year) ==
    IF Len(tds) < 2 THEN <<>>
    ELSE LET date_cell == tds[1]
             time_cell == tds[2]
         IN  IF time_cell.dayoff THEN <<>>
             ELSE IF ~date_cell.pair THEN <<>>
             ELSE IF Len(time_cell.parts) # 2 THEN <<>>
             ELSE IF \/ ~ValidDate(date_cell.mm, date_cell.dd)
                     \/ time_cell.parts[1] \notin Times
                     \/ time_cell.parts[2] \notin Times
                  THEN <<>>
             ELSE LET day == [y |-> year, m |-> date_cell.mm, d |-> date_cell.dd]
                  IN  << [start |-> [date |-> day, tod |-> time_cell.parts[1]],
                          end |-> [date |-> day, tod |-> time_cell.parts[2]],
                          summary |-> SHIFT_TITLE,
                          location |-> "None"] >>

\* as ParseRows, but a row that gives no shift ends the loop
RECURSIVE ParseRows_stop_at_skipped(_, _)
ParseRows_stop_at_skipped(rows, year) ==
    IF rows = <<>> \/ ParseRow(Head(rows), year) = <<>> THEN <<>>
    ELSE ParseRow(Head(rows), year)
             \o ParseRows_stop_at_skipped(Tail(rows), year)

RECURSIVE ParseRows(_, _)
ParseRows(rows, year) ==
    IF rows = <<>> THEN <<>>
    ELSE ParseRow(Head(rows), year) \o ParseRows(Tail(rows), year)

_parse_synerion_table(html) ==
    LET t == TargetTable(html)
    IN  IF t = 0 THEN <<>> ELSE ParseRows(html.tables[t].rows, RefYear(html))

\* ---------------------------------------------------- Fingerprint Function
\* _hash_shift with the end time left out of the key
_hash_shift_no_end(s) == <<s.start.date, s.start.tod>>

\* the key f"{start.date()}|{start.time()}|{end.time()}"; the truncated
\* SHA-256 of the key is taken to be injective on keys
_hash_shift(s) == <<s.start.date, s.start.tod, s.end.tod>>

\* ------------------------------------------------------------- event store
\* events_list with the privateExtendedProperty filter left out
events_list_any_hash(st, timeMin, timeMax, h) ==
    SelectSeq([i \in 1 .. Len(st) |-> i],
              LAMBDA i : st[i].end > timeMin /\ st[i].start < timeMax)

\* calendar.events().list(timeMin, timeMax[, privateExtendedProperty]): the
\* ids, in store order, of the events that end after timeMin and start
\* before timeMax, and carry the hash when one is asked for
events_list(st, timeMin, timeMax, h) ==
    SelectSeq([i \in 1 .. Len(st) |-> i],
              LAMBDA i : /\ st[i].end > timeMin
                         /\ st[i].start < timeMax
                         /\ (h = NoHash \/ st[i].hash = h))

\* _find_existing with time_max = time_min (the + timedelta(days=1) lost)
_find_existing_same_bounds(st, h, start_dt) ==
    LET time_min == DayNum(start_dt.date) * DayLen
        items == events_list(st, time_min, time_min, h)
    IN  IF items # <<>> THEN items[1] ELSE 0

\* the event on the shift's day with the same private hash; 0 for None
_find_existing(st, h, start_dt) ==
    LET time_min == DayNum(start_dt.date) * DayLen
        time_max == time_min + DayLen
        items == events_list(st, time_min, time_max, h)
    IN  IF items # <<>> THEN items[1] ELSE 0

\* _has_overlap comparing the whole title instead of its beginning
_has_overlap_exact_title(st, start_dt, end_dt, title_hint) ==
    LET items == events_list(st, IsoInstant(start_dt), IsoInstant(end_dt), NoHash)
    IN  \E k \in 1 .. Len(items) :
            Lower(Strip(st[items[k]].summary)) = Lower(title_hint)

\* as _has_overlap, but only events that start inside [start, end) are listed
_has_overlap_starts_inside(st, start_dt, end_dt, title_hint) ==
    \E i \in 1 .. Len(st) :
        /\ st[i].start >= IsoInstant(start_dt)
        /\ st[i].start < IsoInstant(end_dt)
        /\ StartsWith(Lower(Strip(st[i].summary)), Lower(title_hint))

\* (an event without a summary is one with the empty summary: the code
\* reads it as (it.get("summary") or ""))
_has_overlap(st, start_dt, end_dt, title_hint) ==
    LET items == events_list(st, IsoInstant(start_dt), IsoInstant(end_dt), NoHash)
    IN  \E k \in 1 .. Len(items) :
            LET summary == Strip(st[items[k]].summary)
            IN  StartsWith(Lower(summary), Lower(title_hint))

\* the request body of insert and update
EventBody(shift, h) ==
    [summary |-> shift.summary,
     start |-> IsoInstant(shift.start),
     end |-> IsoInstant(shift.end),
     hash |-> h]

\* the status _upsert_event returns when none of its calls raises
UpsertStatus(st, shift) ==
    IF _find_existing(st, _hash_shift(shift), shift.start) # 0 THEN "updated"
    ELSE IF _has_overlap(st, shift.start, shift.end, shift.summary)
         THEN "skipped_overlap"
    ELSE "created"

\* as UpsertStore, but a shift that overlaps a titled event is inserted too
UpsertStore_insert_on_overlap(st, shift) ==
    LET h == _hash_shift(shift)
        existing == _find_existing(st, h, shift.start)
    IN  IF existing # 0 THEN [st EXCEPT ![existing] = EventBody(shift, h)]
        ELSE Append(st, EventBody(shift, h))

\* as UpsertStore, but the overlap check comes before the fingerprint lookup
UpsertStore_overlap_first(st, shift) ==
    LET h == _hash_shift(shift)
        existing == _find_existing(st, h, shift.start)
    IN  IF _has_overlap(st, shift.start, shift.end, shift.summary) THEN st
        ELSE IF existing # 0 THEN [st EXCEPT ![existing] = EventBody(shift, h)]
        ELSE Append(st, EventBody(shift, h))

\* the store after _upsert_event when none of its calls raises
UpsertStore(st, shift) ==
    LET h == _hash_shift(shift)
        existing == _find_existing(st, h, shift.start)
    IN  IF existing # 0 THEN [st EXCEPT ![existing] = EventBody(shift, h)]
        ELSE IF _has_overlap(st, shift.start, shift.end, shift.summary) THEN st
        ELSE Append(st, EventBody(shift, h))

\* the remote calls _upsert_event makes, in order
UpsertCalls(st, shift) ==
    IF _find_existing(st, _hash_shift(shift), shift.start) # 0
    THEN <<"events.list", "events.update">>
    ELSE IF _has_overlap(st, shift.start, shift.end, shift.summary)
         THEN <<"events.list", "events.list">>
    ELSE <<"events.list", "events.list", "events.insert">>

\* ------------------------------------------------------------ Batch Driver
Min(a, b) == IF a <= b THEN a ELSE b

Reverse(q) == [i \in 1 .. Len(q) |-> q[Len(q) + 1 - i]]

\* gmail messages.list(q, maxResults): the ids (positions in the mailbox,
\* newest first) of at most max_results matching messages
_gmail_messages(box, max_results) ==
    [i \in 1 .. Min(max_results, Len(box)) |-> i]

\* as _recent_published_messages, but in the order messages.list gave
_recent_published_messages_newest_first(box, lim) == _gmail_messages(box, lim)

\* oldest first
_recent_published_messages(box, lim) == Reverse(_gmail_messages(box, lim))

\* Tally with `updated` counted on every status that is not `created`
TallyElse(status, c, u) ==
    IF status = "created" THEN <<c + 1, u>> ELSE <<c, u + 1>>

\* created, updated after one more status
Tally(status, c, u) ==
    IF status = "created" THEN <<c + 1, u>>
    ELSE IF status = "updated" THEN <<c, u + 1>>
    ELSE <<c, u>>

\* ------------------------------------------------------------------ inputs
Oct7 == [y |-> 2024, m |-> 10, d |-> 7]
Oct8 == [y |-> 2024, m |-> 10, d |-> 8]

At(date, tod) == DayNum(date) * DayLen + tod

\* a <tr> "Tue mm/dd | a - b | dept | job"
Row(mm, dd, a, b) ==
    << [pair |-> TRUE, mm |-> mm, dd |-> dd],
       [dayoff |-> FALSE, parts |-> <<a, b>>] >>

\* a <tr> "Wed mm/dd | Day off | |"
DayOffRow(mm, dd) ==
    << [pair |-> TRUE, mm |-> mm, dd |-> dd],
       [dayoff |-> TRUE, parts |-> <<>>] >>

ScheduleHeaders == <<"Date", "TIME", "Department", "Job">>

Publication(rows) ==
    [year |-> 2024, tables |-> << [ths |-> ScheduleHeaders, rows |-> rows] >>]

\* the message bodies the mailbox may hold
Bodies ==
    { Publication(<< Row(10, 7, 0, 2) >>),
      Publication(<< Row(10, 7, 1, 3) >>),
      Publication(<< Row(10, 7, 2, 3), DayOffRow(10, 8) >>),
      Publication(<< Row(10, 7, 2, 0) >>),
      Publication(<< Row(10, 7, 0, 2), Row(10, 8, 0, 2) >>),
      [year |-> 0,
       tables |-> << [ths |-> <<"Date", "Note">>,
                      rows |-> << Row(10, 7, 0, 2) >>] >>] }

RECURSIVE SeqsUpTo(_, _)
SeqsUpTo(S, n) ==
    IF n = 0 THEN {<<>>}
    ELSE LET shorter == SeqsUpTo(S, n - 1)
         IN  shorter \cup {Append(q, x) : q \in shorter, x \in S}

Inboxes == SeqsUpTo(Bodies, MaxMsgs)

\* the hash the bot stores for a shift on Oct 7 from slot a to slot b
HashOf(a, b) == <<Oct7, a, b>>

WorkSwap == <<"W", "o", "r", "k", " ", "-", " ", "s", "w", "a", "p">>
SpacedUpper == <<" ", "W", "O", "R", "K", " ">>
Lunch == <<"L", "u", "n", "c", "h">>

\* the calendars a run may start from: empty; a manual "Work - swap"; an
\* unrelated "Lunch"; a manual " WORK "; an untitled event; an event the bot
\* made for 0-2 that its owner moved to 2-3; a manual "Work - swap" across
\* such a moved event; an event the bot made for Oct 7 that its owner moved
\* to Oct 8
InitStores ==
    { <<>>,
      << [summary |-> WorkSwap, start |-> At(Oct7, 0), end |-> At(Oct7, 2),
          hash |-> NoHash] >>,
      << [summary |-> Lunch, start |-> At(Oct7, 1), end |-> At(Oct7, 2),
          hash |-> NoHash] >>,
      << [summary |-> SpacedUpper, start |-> At(Oct7, 2), end |-> At(Oct7, 3),
          hash |-> NoHash] >>,
      << [summary |-> <<>>, start |-> At(Oct7, 0), end |-> At(Oct8, 1),
          hash |-> NoHash] >>,
      << [summary |-> SHIFT_TITLE, start |-> At(Oct7, 2), end |-> At(Oct7, 3),
          hash |-> HashOf(0, 2)] >>,
      << [summary |-> WorkSwap, start |-> At(Oct7, 1), end |-> At(Oct7, 3),
          hash |-> NoHash],
         [summary |-> SHIFT_TITLE, start |-> At(Oct7, 2), end |-> At(Oct7, 3),
          hash |-> HashOf(0, 2)] >>,
      << [summary |-> SHIFT_TITLE, start |-> At(Oct8, 0), end |-> At(Oct8, 2),
          hash |-> HashOf(0, 2)] >> }

Limits == {1, NUM_PUBLISH_EMAILS}

\* ------------------------------------------------------------------- state
VARIABLES
    store,      \* the calendar: the sequence of events, an event's id its index
    store0,     \* the calendar before the first run
    inbox,      \* the matching messages of the mailbox, newest first
    limit,      \* NUM_PUBLISH_EMAILS as configured
    run,        \* which invocation of handler this is
    pc,         \* "list", "fetch", "upsert", "done", "failed"
    msgs,       \* msgs of _process_recent_emails
    mi,         \* position of the for loop over msgs
    shifts,     \* shifts of the message being processed
    si,         \* position of the for loop over shifts
    created,    \* the counters of _process_recent_emails
    updated,
    result,     \* what handler returned: NoResult or <<the dict>>
    ncalls,     \* remote calls issued in this run
    raised,     \* a remote call raised in this run
    outcomes,   \* the statuses _upsert_event returned in this run
    parsed,     \* the shifts the parser returned in this run, in order
    prev,       \* <<outcomes of the run before>> when that run completed, else <<>>
    ndone,      \* runs completed so far
    last,       \* the last _upsert_event of this run: <<>> or <<its record>>
    fa,         \* two Shift values given to _hash_shift ...
    fb,
    fp,         \* ... and the two fingerprints it returned, or <<>>
    begun,      \* the calendar when this run began
    doc,        \* an html body given to _parse_synerion_table ...
    emitted     \* ... and <<the shifts it returned>>, or <<>>

vars == <<store, store0, inbox, limit, run, pc, msgs, mi, shifts, si, created,
          updated, result, ncalls, raised, outcomes, parsed, prev, ndone, last,
          fa, fb, fp, begun, doc, emitted>>

\* the part of the state the runs of handler do not touch
hvars == <<fa, fb, fp, doc, emitted>>

\* an html body without any table
NoDoc == [year |-> 0, tables |-> <<>>]

\* a Shift the Batch Driver is not running on
NoShift ==
    [start |-> [date |-> Oct7, tod |-> 0], end |-> [date |-> Oct7, tod |-> 0],
     summary |-> <<>>, location |-> "None"]

Init ==
    /\ store0 \in InitStores
    /\ store = store0
    /\ inbox \in Inboxes
    /\ limit \in Limits
    /\ run = 1
    /\ pc = "list"
    /\ msgs = <<>>
    /\ mi = 1
    /\ shifts = <<>>
    /\ si = 1
    /\ created = 0
    /\ updated = 0
    /\ result = NoResult
    /\ ncalls = 0
    /\ raised = FALSE
    /\ outcomes = <<>>
    /\ parsed = <<>>
    /\ prev = <<>>
    /\ ndone = 0
    /\ last = <<>>
    /\ fa = NoShift
    /\ fb = NoShift
    /\ fp = <<>>
    /\ begun = store0
    /\ doc = NoDoc
    /\ emitted = <<>>

\* an exception leaves _process_recent_emails and handler: nothing catches it
Propagate(n) ==
    /\ pc' = "failed"
    /\ raised' = TRUE
    /\ ncalls' = ncalls + n
    /\ UNCHANGED <<store, store0, inbox, limit, run, msgs, mi, shifts, si,
                   created, updated, result, outcomes, parsed, prev, ndone,
                   last>>
    /\ UNCHANGED <<begun, hvars>>

\* line 100: msgs = _recent_published_messages(...)
ListMessages ==
    /\ pc = "list"
    /\ msgs' = _recent_published_messages(inbox, limit)
    /\ mi' = 1
    /\ pc' = "fetch"
    /\ ncalls' = ncalls + 1
    /\ UNCHANGED <<store, store0, inbox, limit, run, shifts, si, created,
                   updated, result, raised, outcomes, parsed, prev, ndone,
                   last>>
    /\ UNCHANGED <<begun, hvars>>

ListMessagesRaises ==
    /\ pc = "list"
    /\ Propagate(1)

\* lines 102-103: html = _get_message_html(...); shifts = _parse_synerion_table
\* (a message without shifts ends its inner loop at once)
FetchMessage ==
    /\ pc = "fetch"
    /\ mi <= Len(msgs)
    /\ LET got == _parse_synerion_table(inbox[msgs[mi]])
       IN  /\ shifts' = got
           /\ parsed' = parsed \o got
           /\ si' = 1
           /\ IF got = <<>>
              THEN mi' = mi + 1 /\ pc' = "fetch"
              ELSE mi' = mi /\ pc' = "upsert"
    /\ ncalls' = ncalls + 1
    /\ UNCHANGED <<store, store0, inbox, limit, run, msgs, created, updated,
                   result, raised, outcomes, prev, ndone, last>>
    /\ UNCHANGED <<begun, hvars>>

\* FetchMessageRaises with the exception caught and the message skipped
FetchMessageSwallowed ==
    /\ pc = "fetch"
    /\ mi <= Len(msgs)
    /\ mi' = mi + 1
    /\ raised' = TRUE
    /\ ncalls' = ncalls + 1
    /\ UNCHANGED <<store, store0, inbox, limit, run, pc, msgs, shifts, si,
                   created, updated, result, outcomes, parsed, prev, ndone,
                   last>>
    /\ UNCHANGED <<begun, hvars>>

FetchMessageRaises ==
    /\ pc = "fetch"
    /\ mi <= Len(msgs)
    /\ Propagate(1)

\* lines 105-109: status = _upsert_event(gcal, calendar_id, s) and the tally
UpsertShift ==
    /\ pc = "upsert"
    /\ LET s == shifts[si]
           status == UpsertStatus(store, s)
           t == Tally(status, created, updated)
       IN  /\ store' = UpsertStore(store, s)
           /\ created' = t[1]
           /\ updated' = t[2]
           /\ outcomes' = Append(outcomes, status)
           /\ ncalls' = ncalls + Len(UpsertCalls(store, s))
           /\ last' = << [shift |-> s, status |-> status, before |-> store] >>
    /\ IF si < Len(shifts)
       THEN si' = si + 1 /\ mi' = mi /\ pc' = "upsert"
       ELSE si' = 1 /\ mi' = mi + 1 /\ pc' = "fetch"
    /\ UNCHANGED <<store0, inbox, limit, run, msgs, shifts, result, raised,
                   parsed, prev, ndone>>
    /\ UNCHANGED <<begun, hvars>>

\* the k-th remote call of _upsert_event raises; the calls before it are reads
UpsertShiftRaises ==
    /\ pc = "upsert"
    /\ \E k \in 1 .. Len(UpsertCalls(store, shifts[si])) : Propagate(k)

\* line 110 and line 128: the loop is over, handler returns the counts
Return ==
    /\ pc = "fetch"
    /\ mi > Len(msgs)
    /\ pc' = "done"
    /\ result' = << [ok |-> TRUE, created |-> created, updated |-> updated] >>
    /\ ndone' = ndone + 1
    /\ UNCHANGED <<store, store0, inbox, limit, run, msgs, mi, shifts, si,
                   created, updated, ncalls, raised, outcomes, parsed, prev,
                   last>>
    /\ UNCHANGED <<begun, hvars>>

\* the scheduler invokes handler again, on the same mailbox
StartRun ==
    /\ pc \in {"done", "failed"}
    /\ run < MaxRuns
    /\ run' = run + 1
    /\ pc' = "list"
    /\ msgs' = <<>>
    /\ mi' = 1
    /\ shifts' = <<>>
    /\ si' = 1
    /\ created' = 0
    /\ updated' = 0
    /\ result' = NoResult
    /\ ncalls' = 0
    /\ raised' = FALSE
    /\ outcomes' = <<>>
    /\ parsed' = <<>>
    /\ prev' = IF pc = "done" THEN <<outcomes>> ELSE <<>>
    /\ last' = <<>>
    /\ begun' = store
    /\ UNCHANGED <<store, store0, inbox, limit, ndone>>
    /\ UNCHANGED hvars

Next ==
    \/ ListMessages
    \/ ListMessagesRaises
    \/ FetchMessage
    \/ FetchMessageRaises
    \/ UpsertShift
    \/ UpsertShiftRaises
    \/ Return
    \/ StartRun

Spec == Init /\ [][Next]_vars

\* ------------------------------------------- runs on an empty calendar
\* the bodies of Bodies and a publication of three shifts, the second across
\* the first and the third
BodiesFromEmpty ==
    Bodies \cup
        { Publication(<< Row(10, 7, 0, 2), Row(10, 7, 1, 3), Row(10, 7, 2, 3) >>) }

InitFromEmpty ==
    /\ store0 = <<>>
    /\ store = <<>>
    /\ inbox \in SeqsUpTo(BodiesFromEmpty, MaxMsgs)
    /\ limit \in Limits
    /\ run = 1
    /\ pc = "list"
    /\ msgs = <<>>
    /\ mi = 1
    /\ shifts = <<>>
    /\ si = 1
    /\ created = 0
    /\ updated = 0
    /\ result = NoResult
    /\ ncalls = 0
    /\ raised = FALSE
    /\ outcomes = <<>>
    /\ parsed = <<>>
    /\ prev = <<>>
    /\ ndone = 0
    /\ last = <<>>
    /\ fa = NoShift
    /\ fb = NoShift
    /\ fp = <<>>
    /\ begun = <<>>
    /\ doc = NoDoc
    /\ emitted = <<>>

SpecFromEmpty == InitFromEmpty /\ [][Next]_vars

\* ------------------------------------------- the fingerprint, on its own
Locations == {"None", "Front desk"}

\* the Shift values _hash_shift is tried on
ShiftValues ==
    { [start |-> [date |-> d1, tod |-> t1], end |-> [date |-> d2, tod |-> t2],
       summary |-> ti, location |-> lo] :
        d1 \in {Oct7, Oct8}, t1 \in Times, d2 \in {Oct7, Oct8}, t2 \in Times,
        ti \in {SHIFT_TITLE, WorkSwap}, lo \in Locations }

InitFingerprint ==
    /\ fa \in ShiftValues
    /\ fb \in ShiftValues
    /\ fp = <<>>
    /\ store0 = <<>>
    /\ store = <<>>
    /\ inbox = <<>>
    /\ limit = NUM_PUBLISH_EMAILS
    /\ run = 1
    /\ pc = "idle"
    /\ msgs = <<>>
    /\ mi = 1
    /\ shifts = <<>>
    /\ si = 1
    /\ created = 0
    /\ updated = 0
    /\ result = NoResult
    /\ ncalls = 0
    /\ raised = FALSE
    /\ outcomes = <<>>
    /\ parsed = <<>>
    /\ prev = <<>>
    /\ ndone = 0
    /\ last = <<>>
    /\ begun = <<>>
    /\ doc = NoDoc
    /\ emitted = <<>>

\* h = _hash_shift(shift), for each of the two
Fingerprint ==
    /\ pc = "idle"
    /\ fp = <<>>
    /\ fp' = <<_hash_shift(fa), _hash_shift(fb)>>
    /\ UNCHANGED <<store, store0, inbox, limit, run, pc, msgs, mi, shifts, si,
                   created, updated, result, ncalls, raised, outcomes, parsed,
                   prev, ndone, last, fa, fb, begun, doc, emitted>>

NextFingerprint == Fingerprint

SpecFingerprint == InitFingerprint /\ [][NextFingerprint]_vars

\* ------------------------------------------- the parser on its own
\* a time token dateutil rejects
JunkTime == 0 - 1

\* the <tr>s a table may hold: shifts in and out of date order, one ending
\* before it starts, day-off rows, and every kind of row the loop skips
TableRows ==
    { Row(10, 7, 0, 2),
      Row(10, 8, 2, 3),
      Row(10, 7, 2, 0),
      DayOffRow(10, 8),
      << [pair |-> TRUE, mm |-> 10, dd |-> 7],
         [dayoff |-> TRUE, parts |-> <<0, 2>>] >>,
      << [pair |-> FALSE, mm |-> 0, dd |-> 0],
         [dayoff |-> FALSE, parts |-> <<0, 2>>] >>,
      Row(13, 45, 0, 2),
      << [pair |-> TRUE, mm |-> 10, dd |-> 7],
         [dayoff |-> FALSE, parts |-> <<1>>] >>,
      << [pair |-> TRUE, mm |-> 10, dd |-> 7],
         [dayoff |-> FALSE, parts |-> <<0, 1, 2>>] >>,
      Row(10, 7, JunkTime, 2),
      Row(10, 7, 1, JunkTime),
      << [pair |-> TRUE, mm |-> 10, dd |-> 7] >> }

\* the html bodies given to the parser: with and without the "published
\* from" header, the schedule table alone, after another table, or missing
Layout(k, rs) ==
    CASE k = 1 -> << [ths |-> ScheduleHeaders, rows |-> rs] >>
      [] k = 2 -> << [ths |-> <<"Date", "Note">>, rows |-> rs] >>
      [] OTHER -> << [ths |-> <<"Date", "Note">>,
                      rows |-> << Row(10, 8, 0, 2) >>],
                     [ths |-> ScheduleHeaders, rows |-> rs] >>

Docs(n) ==
    { [year |-> y, tables |-> Layout(k, rs)] :
        y \in {0, 2024}, k \in 1 .. 3, rs \in SeqsUpTo(TableRows, n) }

InitParse ==
    /\ doc \in Docs(MaxRows)
    /\ emitted = <<>>
    /\ fa = NoShift
    /\ fb = NoShift
    /\ fp = <<>>
    /\ store0 = <<>>
    /\ store = <<>>
    /\ inbox = <<>>
    /\ limit = NUM_PUBLISH_EMAILS
    /\ run = 1
    /\ pc = "idle"
    /\ msgs = <<>>
    /\ mi = 1
    /\ shifts = <<>>
    /\ si = 1
    /\ created = 0
    /\ updated = 0
    /\ result = NoResult
    /\ ncalls = 0
    /\ raised = FALSE
    /\ outcomes = <<>>
    /\ parsed = <<>>
    /\ prev = <<>>
    /\ ndone = 0
    /\ last = <<>>
    /\ begun = <<>>

\* shifts = _parse_synerion_table(html, tz)
Parse ==
    /\ pc = "idle"
    /\ emitted = <<>>
    /\ emitted' = << _parse_synerion_table(doc) >>
    /\ UNCHANGED <<store, store0, inbox, limit, run, pc, msgs, mi, shifts, si,
                   created, updated, result, ncalls, raised, outcomes, parsed,
                   prev, ndone, last, fa, fb, fp, begun, doc>>

NextParse == Parse

SpecParse == InitParse /\ [][NextParse]_vars

\* ------------------------------------------------------- what is checked
\* the Shift invariant of the data model
WellFormed(s) == IsoInstant(s.start) < IsoInstant(s.end)

\* the half-open ranges [a1, b1) and [a2, b2) share an instant
Meet(a1, b1, a2, b2) == \E t \in a1 .. (b1 - 1) : t \in a2 .. (b2 - 1)

\* event e shares an instant with shift s
Overlaps(e, s) == Meet(e.start, e.end, IsoInstant(s.start), IsoInstant(s.end))

\* event e lies, at least in part, on the calendar day of shift s
OnDayOf(e, s) ==
    Meet(e.start, e.end, At(s.start.date, 0), At(s.start.date, DayLen))

\* the title, after leading blanks, begins with SHIFT_TITLE in any case
TitleLike(t) ==
    \E i \in 0 .. Len(t) :
        /\ \A j \in 1 .. i : t[j] = " "
        /\ Len(t) >= i + Len(SHIFT_TITLE)
        /\ \A j \in 1 .. Len(SHIFT_TITLE) :
               LowerChar(t[i + j]) = LowerChar(SHIFT_TITLE[j])

\* the shifts a complete run over the mailbox upserts, in order
RECURSIVE ShiftsOf(_, _)
ShiftsOf(box, ids) ==
    IF ids = <<>> THEN <<>>
    ELSE _parse_synerion_table(box[Head(ids)]) \o ShiftsOf(box, Tail(ids))

AllShifts == ShiftsOf(inbox, _recent_published_messages(inbox, limit))

Count(q, x) == Cardinality({k \in 1 .. Len(q) : q[k] = x})

\* this run is a second pass: the run before it completed
SecondPass == prev # <<>>

\* the events of the store that _upsert_event inserted (ids after store0's)
BotIds == (Len(store0) + 1) .. Len(store)

\* C1 as claimed: two passes over the same shifts give `created` for each
\* shift the first time it is upserted and `updated` every time after that;
\* the second pass returns no `created`; no shift gets a second event.
C1_CreatedOnceThenUpdated ==
    /\ (run = 1 =>
            \A k \in 1 .. Len(outcomes) :
                WellFormed(parsed[k]) =>
                    outcomes[k] =
                        IF \E j \in 1 .. (k - 1) :
                               _hash_shift(parsed[j]) = _hash_shift(parsed[k])
                        THEN "updated" ELSE "created")
    /\ (SecondPass =>
            \A k \in 1 .. Len(outcomes) :
                WellFormed(parsed[k]) => outcomes[k] = "updated")
    /\ \A i, j \in BotIds :
            (store[i].start < store[i].end /\ store[i].hash = store[j].hash)
                => i = j

\* C1 as amended: in a second pass over the same shifts, a shift with
\* start < end whose first-pass upsert returned `created` or `updated`
\* returns `updated`, and that upsert inserts nothing.
C1_SecondPassUpdates ==
    SecondPass =>
        /\ \A k \in 1 .. Len(outcomes) :
               (WellFormed(parsed[k]) /\ prev[1][k] \in {"created", "updated"})
                   => outcomes[k] = "updated"
        /\ \A k \in 1 .. Len(last) :
               (WellFormed(last[k].shift)
                    /\ prev[1][Len(outcomes)] \in {"created", "updated"})
                   => Len(store) = Len(last[k].before)

\* C1 witness: a second pass has answered `updated` for a shift that the
\* first pass created, and `skipped_overlap` again for one it skipped
C1_Witness ==
    /\ SecondPass
    /\ Len(outcomes) = 2
    /\ prev[1][1] = "created" /\ outcomes[1] = "updated"
    /\ prev[1][2] = "skipped_overlap" /\ outcomes[2] = "skipped_overlap"
    /\ WellFormed(parsed[1]) /\ WellFormed(parsed[2])

\* C2 as claimed: with the bot's own event for a-b in the store, upserting
\* the corrected shift c-d of the same day (a < c < b < d, as 09:00-17:00
\* against 10:00-18:00) returns `created` and inserts one event, the old
\* event staying.
C2_CorrectedShiftCreated ==
    \A k \in 1 .. Len(last) :
        LET s == last[k].shift
            before == last[k].before
        IN  (\E i \in 1 .. Len(before) :
                 /\ i > Len(store0)
                 /\ before[i].hash # _hash_shift(s)
                 /\ before[i].hash[1] = s.start.date
                 /\ before[i].start < IsoInstant(s.start)
                 /\ IsoInstant(s.start) < before[i].end
                 /\ before[i].end < IsoInstant(s.end))
            => /\ last[k].status = "created"
               /\ Len(store) = Len(before) + 1
               /\ \A i \in 1 .. Len(before) : store[i] = before[i]

\* C3 as claimed: after a run over two publications of the same dates with
\* different times, the store holds the newest publication's ranges on those
\* dates and not the older one's.
C3_LatestWins ==
    (/\ pc = "done"
     /\ run = 1
     /\ store0 = <<>>
     /\ Len(msgs) = 2
     /\ \A k \in 1 .. Len(parsed) : WellFormed(parsed[k]))
    => LET newest == _parse_synerion_table(inbox[1])
           older == _parse_synerion_table(inbox[2])
           dates(q) == {q[k].start.date : k \in 1 .. Len(q)}
           ranges(q) == {<<IsoInstant(q[k].start), IsoInstant(q[k].end)>> :
                            k \in 1 .. Len(q)}
           held == {<<store[i].start, store[i].end>> : i \in 1 .. Len(store)}
       IN  (dates(newest) = dates(older) /\ ranges(newest) # ranges(older))
           => /\ ranges(newest) \subseteq held
              /\ held \cap (ranges(older) \ ranges(newest)) = {}

\* C4: when no event on the shift's day carries the shift's fingerprint and
\* some event that overlaps [start, end) has a title which, trimmed and in
\* any case, starts with the shift title, _upsert_event returns
\* `skipped_overlap` and leaves the store as it was.
C4_OverlapProtection ==
    \A k \in 1 .. Len(last) :
        LET s == last[k].shift
            before == last[k].before
        IN  (/\ \A i \in 1 .. Len(before) :
                    before[i].hash = _hash_shift(s) => ~OnDayOf(before[i], s)
             /\ \E i \in 1 .. Len(before) :
                    Overlaps(before[i], s) /\ TitleLike(before[i].summary))
            => /\ last[k].status = "skipped_overlap"
               /\ store = before

\* C4 witness: a shift was skipped because of a manual event whose title is
\* not the shift title itself ("Work - swap", " WORK ")
C4_Witness ==
    /\ Len(last) = 1
    /\ last[1].status = "skipped_overlap"
    /\ \E i \in 1 .. Len(store) :
           /\ store[i].hash = NoHash
           /\ store[i].summary # SHIFT_TITLE
           /\ TitleLike(store[i].summary)
           /\ Overlaps(store[i], last[1].shift)
    /\ \A i \in 1 .. Len(store) :
           store[i].summary = SHIFT_TITLE => ~Overlaps(store[i], last[1].shift)

\* the store after upserting the shifts of q in order, no call raising
RECURSIVE UpsertAll(_, _)
UpsertAll(st, q) ==
    IF q = <<>> THEN st ELSE UpsertAll(UpsertStore(st, Head(q)), Tail(q))

\* C5 as claimed: the first run that completes, after any number of aborted
\* runs, leaves the store that one uninterrupted run from the initial store
\* leaves.
C5_ResumeEqualsUninterrupted ==
    (/\ pc = "done"
     /\ ndone = 1
     /\ \A k \in 1 .. Len(parsed) : WellFormed(parsed[k]))
    => store = UpsertAll(store0, AllShifts)

\* C6: _upsert_event removes no event and changes no event whose private
\* hash is not the fingerprint of the shift it upserts; an event without a
\* hash is never changed by any run.
C6_FrameOfUpsert ==
    /\ \A k \in 1 .. Len(last) :
           LET before == last[k].before
           IN  /\ Len(store) >= Len(before)
               /\ \A i \in 1 .. Len(before) :
                      before[i].hash # _hash_shift(last[k].shift)
                          => store[i] = before[i]
    /\ Len(store) >= Len(store0)
    /\ \A i \in 1 .. Len(store0) :
           store0[i].hash = NoHash => store[i] = store0[i]

\* C6 witness: an upsert has updated one event and left a manual event of the
\* same day alone
C6_Witness ==
    /\ Len(last) = 1
    /\ last[1].status = "updated"
    /\ \E i \in 1 .. Len(store0) :
           store0[i].hash = NoHash /\ OnDayOf(store0[i], last[1].shift)
    /\ store # last[1].before

\* C7 as claimed: every shift the parser emits has start < end, both on the
\* same calendar day.
C7_ShiftInvariant ==
    \A k \in 1 .. Len(parsed) :
        /\ IsoInstant(parsed[k].start) < IsoInstant(parsed[k].end)
        /\ parsed[k].start.date = parsed[k].end.date

\* C8: once a remote call has raised, the run makes no further remote call
\* and returns nothing; handler returns {ok, created, updated} only from a
\* run in which no call raised.
C8_FailureAborts ==
    /\ [](raised => (pc = "failed" /\ result = NoResult))
    /\ [](result # NoResult => (~raised /\ pc = "done"))
    /\ [][(raised /\ run' = run) => (ncalls' = ncalls /\ store' = store)]_vars

\* C8 witness: a call raised after the run had already written an event
C8_Witness ==
    /\ pc = "failed"
    /\ raised
    /\ ncalls >= 4
    /\ Len(store) > Len(store0)
    /\ result = NoResult

\* C9: the counts a completed run returns are the numbers of `created` and
\* of `updated` statuses of its upserts; with the `skipped_overlap` ones they
\* add up to the number of shifts parsed.
C9_CountsMatchOutcomes ==
    pc = "done" =>
        /\ result[1].created = Count(outcomes, "created")
        /\ result[1].updated = Count(outcomes, "updated")
        /\ result[1].created + result[1].updated
               + Count(outcomes, "skipped_overlap") = Len(parsed)

\* C9 witness: a completed run with all three statuses
C9_Witness ==
    /\ pc = "done"
    /\ result # NoResult
    /\ Count(outcomes, "created") >= 1
    /\ Count(outcomes, "updated") >= 1
    /\ Count(outcomes, "skipped_overlap") >= 1

\* C10: two shifts with the same start date, start time of day and end time
\* of day get equal fingerprints, whatever their title and location; two
\* shifts that differ in the start time of day or in the end time of day get
\* different fingerprints.
C10_FingerprintIdentity ==
    fp # <<>> =>
        /\ (/\ fa.start.date = fb.start.date
            /\ fa.start.tod = fb.start.tod
            /\ fa.end.tod = fb.end.tod) => fp[1] = fp[2]
        /\ (fa.start.tod # fb.start.tod \/ fa.end.tod # fb.end.tod)
               => fp[1] # fp[2]

\* C10 witness: equal fingerprints for two shifts of different title and
\* location
C10_Witness ==
    /\ fp # <<>>
    /\ fp[1] = fp[2]
    /\ fa.summary # fb.summary
    /\ fa.location # fb.location

\* C11: when the store holds, on the shift's day, an event whose private hash
\* is the shift's fingerprint, _upsert_event returns "updated", inserts
\* nothing, and overwrites one such event, and only it, with the shift's
\* range, title and hash, whatever other events overlap the shift.
C11_FingerprintPrecedence ==
    \A k \in 1 .. Len(last) :
        LET s == last[k].shift
            before == last[k].before
            M == {i \in 1 .. Len(before) :
                      before[i].hash = _hash_shift(s) /\ OnDayOf(before[i], s)}
        IN  M # {}
            => /\ last[k].status = "updated"
               /\ Len(store) = Len(before)
               /\ \E i \in M :
                      /\ store[i].start = IsoInstant(s.start)
                      /\ store[i].end = IsoInstant(s.end)
                      /\ store[i].summary = s.summary
                      /\ store[i].hash = _hash_shift(s)
                      /\ \A j \in 1 .. Len(before) :
                             j # i => store[j] = before[j]

\* C11 witness: an upsert rewrote the event carrying the shift's fingerprint
\* while a manual event with a matching title overlapped the shift
C11_Witness ==
    /\ Len(last) = 1
    /\ last[1].status = "updated"
    /\ store # last[1].before
    /\ \E i, j \in 1 .. Len(last[1].before) :
           /\ i # j
           /\ last[1].before[i].hash = _hash_shift(last[1].shift)
           /\ OnDayOf(last[1].before[i], last[1].shift)
           /\ last[1].before[j].hash = NoHash
           /\ TitleLike(last[1].before[j].summary)
           /\ Overlaps(last[1].before[j], last[1].shift)

\* no table of the body has all of the labels date, time, department, job
NoScheduleTable(html) ==
    \A i \in 1 .. Len(html.tables) :
        \E l \in {"date", "time", "department", "job"} :
            \A j \in 1 .. Len(html.tables[i].ths) :
                LowerLabel(html.tables[i].ths[j]) # l

Good(tds) ==
    /\ Len(tds) >= 2
    /\ ~tds[2].dayoff
    /\ tds[1].pair
    /\ Len(tds[2].parts) = 2
    /\ ValidDate(tds[1].mm, tds[1].dd)
    /\ tds[2].parts[1] \in Times
    /\ tds[2].parts[2] \in Times

\* q without its i-th element
Without(q, i) == SubSeq(q, 1, i - 1) \o SubSeq(q, i + 1, Len(q))

\* C13: the parser emits one shift for each row that is neither a day-off
\* row nor malformed, in the order of the rows, each shift read from its own
\* row alone; taking a day-off or malformed row out of the table leaves the
\* emitted shifts as they were.
C13_RowTolerance ==
    \A k \in 1 .. Len(emitted) :
        LET out == emitted[k]
            T == {i \in 1 .. Len(doc.tables) :
                     \A l \in {"date", "time", "department", "job"} :
                         \E j \in 1 .. Len(doc.tables[i].ths) :
                             LowerLabel(doc.tables[i].ths[j]) = l}
        IN  IF T = {} THEN out = <<>>
            ELSE LET t == CHOOSE i \in T : \A j \in T : i <= j
                     rows == doc.tables[t].rows
                     y == IF doc.year # 0 THEN doc.year ELSE CurrentYear
                     G == {i \in 1 .. Len(rows) : Good(rows[i])}
                     rank(i) == Cardinality({j \in G : j <= i})
                 IN  /\ Len(out) = Cardinality(G)
                     /\ \A i \in G :
                            LET day == [y |-> y, m |-> rows[i][1].mm,
                                        d |-> rows[i][1].dd]
                            IN  out[rank(i)] =
                                  [start |-> [date |-> day,
                                              tod |-> rows[i][2].parts[1]],
                                   end |-> [date |-> day,
                                            tod |-> rows[i][2].parts[2]],
                                   summary |-> SHIFT_TITLE,
                                   location |-> "None"]
                     /\ \A i \in (1 .. Len(rows)) \ G :
                            _parse_synerion_table(
                                [doc EXCEPT !.tables[t].rows = Without(rows, i)])
                              = out

\* C13 witness: a table with a skipped row between two shifts, the later
\* date first, gave the two shifts in the order of the rows
C13_Witness ==
    /\ Len(emitted) = 1
    /\ Len(emitted[1]) = 2
    /\ DayNum(emitted[1][1].start.date) > DayNum(emitted[1][2].start.date)
    /\ \E t \in 1 .. Len(doc.tables) :
           /\ Len(doc.tables[t].rows) = 3
           /\ ~Good(doc.tables[t].rows[2])
           /\ doc.tables[t].ths = ScheduleHeaders

\* C14: a run processes at most `limit` messages, the last one listed first
\* (the list is newest first), and has upserted every shift of a message, in
\* the order of its rows, before it fetches the next message.
C14_ProcessingOrder ==
    pc \in {"fetch", "upsert", "done"}
    => LET n == Len(msgs)
           ids(m) == [k \in 1 .. m |-> n + 1 - k]
       IN  /\ n <= limit
           /\ n = Min(limit, Len(inbox))
           /\ \A k \in 1 .. n : msgs[k] = n + 1 - k
           /\ pc = "upsert"
                  => /\ mi <= n
                     /\ shifts = _parse_synerion_table(inbox[n + 1 - mi])
                     /\ parsed = ShiftsOf(inbox, ids(mi))
                     /\ Len(outcomes) = Len(parsed) - Len(shifts) + si - 1
           /\ pc \in {"fetch", "done"}
                  => /\ parsed = ShiftsOf(inbox, ids(mi - 1))
                     /\ Len(outcomes) = Len(parsed)
           /\ pc = "done" => mi = n + 1
           /\ \A k \in 1 .. Len(last) :
                  Len(outcomes) >= 1 => last[k].shift = parsed[Len(outcomes)]

\* C14 witness: a run over two messages completed; the older one, listed
\* last, had two shifts and both were upserted before the newer one's shift
C14_Witness ==
    /\ pc = "done"
    /\ Len(inbox) = 2
    /\ Len(msgs) = 2
    /\ Len(outcomes) = 3
    /\ Len(_parse_synerion_table(inbox[2])) = 2
    /\ SubSeq(parsed, 1, 2) = _parse_synerion_table(inbox[2])
    /\ inbox[1] # inbox[2]

\* C15 as claimed: when no two events of the initial store carry the same
\* hash, no two events of the store ever do (events with start < end are
\* enough to compare).
C15_FingerprintUnique ==
    (\A i, j \in 1 .. Len(store0) :
         store0[i].hash # NoHash /\ store0[i].hash = store0[j].hash => i = j)
    => \A i, j \in 1 .. Len(store) :
           (/\ store[i].hash # NoHash
            /\ store[i].hash = store[j].hash
            /\ store[i].start < store[i].end
            /\ store[j].start < store[j].end) => i = j

\* the store holds an event made for shift s, on the range of s
HasEvent(s) ==
    \E i \in 1 .. Len(store) :
        /\ store[i].hash = _hash_shift(s)
        /\ store[i].start = IsoInstant(s.start)
        /\ store[i].end = IsoInstant(s.end)

\* two shifts with overlapping intervals and different fingerprints
Rivals(s, t) ==
    /\ Meet(IsoInstant(s.start), IsoInstant(s.end),
            IsoInstant(t.start), IsoInstant(t.end))
    /\ _hash_shift(s) # _hash_shift(t)

\* C16 as claimed: from an empty store and shifts with start < end, no two
\* events overlap, and of two parsed shifts with overlapping intervals and
\* different fingerprints the first one processed has an event and the other
\* has none.
C16_OnlyFirstGetsEvent ==
    (/\ pc = "done"
     /\ \A k \in 1 .. Len(parsed) : WellFormed(parsed[k]))
    => /\ \A i, j \in 1 .. Len(store) :
              i # j => ~Meet(store[i].start, store[i].end,
                             store[j].start, store[j].end)
       /\ \A a, b \in 1 .. Len(parsed) :
              a < b /\ Rivals(parsed[a], parsed[b])
                  => HasEvent(parsed[a]) /\ ~HasEvent(parsed[b])

\* C16, amended: from an empty store and shifts with start < end, no two
\* events overlap at any time, so two shifts with overlapping intervals and
\* different fingerprints never both have an event.
C16_BotEventsDisjoint ==
    LET all == AllShifts
    IN  (\A k \in 1 .. Len(all) : WellFormed(all[k]))
        => /\ \A i, j \in 1 .. Len(store) :
                  i # j => ~Meet(store[i].start, store[i].end,
                                 store[j].start, store[j].end)
           /\ \A a, b \in 1 .. Len(all) :
                  (HasEvent(all[a]) /\ HasEvent(all[b]))
                      => ~Rivals(all[a], all[b])

\* C16 witness: of three shifts the second, across the first and the third,
\* was skipped and the third got an event
C16_Witness ==
    /\ pc = "done"
    /\ store0 = <<>>
    /\ Len(parsed) = 3
    /\ outcomes = <<"created", "skipped_overlap", "created">>
    /\ Rivals(parsed[1], parsed[2])
    /\ Rivals(parsed[2], parsed[3])
    /\ Len(store) = 2

\* C17 as claimed: an upsert that returns "updated" changes the time range of
\* no event (shifts with start < end are enough to compare).
C17_UpdateNeverMoves ==
    \A k \in 1 .. Len(last) :
        (last[k].status = "updated" /\ WellFormed(last[k].shift))
        => \A i \in 1 .. Len(last[k].before) :
               /\ store[i].start = last[k].before[i].start
               /\ store[i].end = last[k].before[i].end

\* C17, amended: an upsert that returns "updated" for an event the bot
\* created, and nobody edited since, leaves the start and the end of that
\* event, and of every other such event, as they were.
C17_UpdateKeepsOwnRange ==
    \A k \in 1 .. Len(last) :
        last[k].status = "updated"
        => \A i \in (Len(store0) + 1) .. Len(last[k].before) :
               /\ store[i].start = last[k].before[i].start
               /\ store[i].end = last[k].before[i].end

\* C17 witness: an upsert returned "updated" for an event that an earlier
\* upsert had inserted
C17_Witness ==
    /\ Len(last) = 1
    /\ last[1].status = "updated"
    /\ \E i \in (Len(store0) + 1) .. Len(last[1].before) :
           /\ last[1].before[i].hash = _hash_shift(last[1].shift)
           /\ \A j \in 1 .. Len(last[1].before) :
                  last[1].before[j].hash = _hash_shift(last[1].shift) => j = i

\* C18 as claimed: a complete run that follows a complete run over the same
\* messages returns created = 0, leaves the store as it found it, and skips
\* again every shift the run before skipped (shifts with start < end).
C18_RunFixpoint ==
    (/\ pc = "done"
     /\ SecondPass
     /\ \A k \in 1 .. Len(parsed) : WellFormed(parsed[k]))
    => /\ result[1].created = 0
       /\ store = begun
       /\ Len(outcomes) = Len(prev[1])
       /\ \A k \in 1 .. Len(outcomes) :
              prev[1][k] = "skipped_overlap" => outcomes[k] = "skipped_overlap"

\* how many of the calls of q are calls of the given method
Writes(q, name) == Cardinality({c \in 1 .. Len(q) : q[c] = name})

\* C19: an upsert that returns "created" makes one insert and adds one event,
\* one that returns "updated" makes one update of one event and adds none,
\* one that returns "skipped_overlap" writes nothing; so the store holds, at
\* any point of a run and when it completes, the events it held when the run
\* began plus as many as the run has counted as created.
C19_SizeAccounting ==
    /\ \A k \in 1 .. Len(last) :
           LET before == last[k].before
               calls == UpsertCalls(before, last[k].shift)
               changed == {i \in 1 .. Len(before) : store[i] # before[i]}
           IN  /\ Len(store) >= Len(before)
               /\ Writes(calls, "events.insert")
                      + Writes(calls, "events.update") <= 1
               /\ last[k].status = "created"
                      => /\ Len(store) = Len(before) + 1
                         /\ changed = {}
                         /\ Writes(calls, "events.insert") = 1
               /\ last[k].status = "updated"
                      => /\ Len(store) = Len(before)
                         /\ Cardinality(changed) <= 1
                         /\ Writes(calls, "events.update") = 1
               /\ last[k].status = "skipped_overlap"
                      => /\ store = before
                         /\ Writes(calls, "events.insert") = 0
                         /\ Writes(calls, "events.update") = 0
    /\ Len(store) = Len(begun) + created
    /\ pc = "done" => Len(store) = Len(begun) + result[1].created

\* C19 witness: a run that skipped, created and updated has completed, and
\* the store holds one event more than when the run began
C19_Witness ==
    /\ pc = "done"
    /\ result[1].created = 1
    /\ result[1].updated >= 1
    /\ \E k \in 1 .. Len(outcomes) : outcomes[k] = "skipped_overlap"
    /\ begun # <<>>
    /\ Len(store) = Len(begun) + 1

====
